---------------------------- MODULE Spec2Model ----------------------------
(***************************************************************************)
(* A model of nmapMatrix.py: one linear script that globs *.gnmap files,   *)
(* loads a host set per segment, aggregates, prints a coloured text        *)
(* matrix and a list of concerns, and writes segmentation_matrix.html.     *)
(*                                                                         *)
(* Text is modelled as sequences of one-character strings ("ESC" stands    *)
(* for the byte \x1b), so that parsing, padding and escape stripping are   *)
(* computed the way the script computes them.                              *)
(***************************************************************************)
EXTENDS Integers, Sequences, FiniteSets, TLC

(***************************************************************************)
(* Bound of the model: how many files the working directory may hold.      *)
(***************************************************************************)
MaxFiles == 3

(***************************************************************************)
(* Program constants.                                                      *)
(***************************************************************************)
RED == <<"ESC", "[", "9", "1", "m">>
YELLOW == <<"ESC", "[", "9", "3", "m">>
GREEN == <<"ESC", "[", "9", "2", "m">>
RESET == <<"ESC", "[", "0", "m">>

HostTag == <<"H", "o", "s", "t", ":">>
PortsTag == <<"P", "o", "r", "t", "s", ":">>
OpenTag == <<"o", "p", "e", "n">>
PciPrefix == <<"p", "c", "i", " ", "-">>
NonPciPrefix == <<"n", "o", "n", " ", "p", "c", "i", " ", "-">>
GnmapSuffix == <<".", "g", "n", "m", "a", "p">>
HostTitle == <<"H", "o", "s", "t">>
PciSkip == 6
NonPciSkip == 10
MinColWidth == 15
ColMargin == 2

HtmlRed == "#ffcccc"
HtmlYellow == "#ffff99"
HtmlGreen == "#ccffcc"
HtmlPciHeader == "background:#b3d1ff;color:#003366;"
HtmlNonPciHeader == "background:#fff2cc;color:#7f6000;"

(***************************************************************************)
(* Characters in ASCII order (for sorted()), and the letter tables of      *)
(* str.lower().                                                            *)
(***************************************************************************)
Ascii == <<"\t", "\n", "ESC", " ", "#", "(", ")", "-", ".", "/", "0", "1", "2", "3", "4", "5", "6", "7", "8", "9", ":", ";", "A", "B", "C", "D", "E", "F", "G", "H", "I", "J", "K", "L", "M", "N", "O", "P", "Q", "R", "S", "T", "U", "V", "W", "X", "Y", "Z", "[", "a", "b", "c", "d", "e", "f", "g", "h", "i", "j", "k", "l", "m", "n", "o", "p", "q", "r", "s", "t", "u", "v", "w", "x", "y", "z">>
UpperCase == <<"A", "B", "C", "D", "E", "F", "G", "H", "I", "J", "K", "L", "M", "N", "O", "P", "Q", "R", "S", "T", "U", "V", "W", "X", "Y", "Z">>
LowerCase == <<"a", "b", "c", "d", "e", "f", "g", "h", "i", "j", "k", "l", "m", "n", "o", "p", "q", "r", "s", "t", "u", "v", "w", "x", "y", "z">>
Digits == {"0", "1", "2", "3", "4", "5", "6", "7", "8", "9"}

OrdOf == [c \in {Ascii[i] : i \in 1..Len(Ascii)} |-> CHOOSE i \in 1..Len(Ascii) : Ascii[i] = c]

Ord(c) == OrdOf[c]

Max(a, b) == IF a >= b THEN a ELSE b

(***************************************************************************)
(* Python string primitives.                                               *)
(***************************************************************************)
IsSpace(c) == c \in {" ", "\t", "\n"}

StartsWith(s, p) == Len(s) >= Len(p) /\ \A k \in 1..Len(p) : s[k] = p[k]

EndsWith(s, p) == Len(s) >= Len(p) /\ SubSeq(s, Len(s) - Len(p) + 1, Len(s)) = p

\* p in s
Contains(s, p) ==
    \E i \in 1..(Len(s) - Len(p) + 1) : \A k \in 1..Len(p) : s[i + k - 1] = p[k]

\* s[n:]
DropFirst(s, n) == SubSeq(s, n + 1, Len(s))

\* c * n (empty when n <= 0)
Repeat(c, n) == [i \in 1..Max(n, 0) |-> c]

LowerOf ==
    [c \in {UpperCase[i] : i \in 1..Len(UpperCase)} |->
        LowerCase[CHOOSE i \in 1..Len(UpperCase) : UpperCase[i] = c]]

LowerChar(c) == IF c \in DOMAIN LowerOf THEN LowerOf[c] ELSE c

Lower(s) == [i \in 1..Len(s) |-> LowerChar(s[i])]

RECURSIVE LStrip(_)
LStrip(s) == IF s # <<>> /\ IsSpace(Head(s)) THEN LStrip(Tail(s)) ELSE s

RECURSIVE RStrip(_)
RStrip(s) == IF s # <<>> /\ IsSpace(s[Len(s)]) THEN RStrip(SubSeq(s, 1, Len(s) - 1)) ELSE s

Strip(s) == RStrip(LStrip(s))

\* str.split() without arguments: cut at runs of whitespace, no empty tokens.
\* The first index from i on that holds no whitespace (Len(s) + 1 if none),
\* and the last index of the token that starts at i.
RECURSIVE TokenStart(_, _)
TokenStart(s, i) == IF i <= Len(s) /\ IsSpace(s[i]) THEN TokenStart(s, i + 1) ELSE i

RECURSIVE TokenEnd(_, _)
TokenEnd(s, i) == IF i < Len(s) /\ ~IsSpace(s[i + 1]) THEN TokenEnd(s, i + 1) ELSE i

RECURSIVE SplitFrom(_, _)
SplitFrom(s, i) ==
    LET a == TokenStart(s, i)
    IN  IF a > Len(s) THEN <<>>
        ELSE <<SubSeq(s, a, TokenEnd(s, a))>> \o SplitFrom(s, TokenEnd(s, a) + 1)

Split(s) == SplitFrom(s, 1)

\* sep.join(items)
RECURSIVE Join(_, _)
Join(sep, items) ==
    IF items = <<>> THEN <<>>
    ELSE IF Len(items) = 1 THEN items[1]
    ELSE items[1] \o sep \o Join(sep, Tail(items))

\* os.path.splitext(p)[0] for a bare file name: cut at the last dot unless
\* only dots precede it.
Splitext(p) ==
    LET dots == {i \in 1..Len(p) : p[i] = "."}
    IN  IF dots = {} THEN p
        ELSE LET d == CHOOSE i \in dots : \A j \in dots : j <= i
             IN  IF \E k \in 1..(d - 1) : p[k] # "." THEN SubSeq(p, 1, d - 1) ELSE p

\* a < b for two strings (lexicographic, by character code)
RECURSIVE LexLess(_, _)
LexLess(a, b) ==
    IF b = <<>> THEN FALSE
    ELSE IF a = <<>> THEN TRUE
    ELSE IF Head(a) = Head(b) THEN LexLess(Tail(a), Tail(b))
    ELSE Ord(Head(a)) < Ord(Head(b))

\* sorted(S) for a set of strings
RECURSIVE Sorted(_)
Sorted(S) ==
    IF S = {} THEN <<>>
    ELSE LET m == CHOOSE x \in S : \A y \in S \ {x} : LexLess(x, y)
         IN  <<m>> \o Sorted(S \ {m})

(***************************************************************************)
(* strip_ansi: re.sub(r'\x1b\[[0-9;]*m', '', s)                            *)
(***************************************************************************)
\* the index of the "m" ending an escape sequence whose parameters start at
\* j, or 0 when the text at j is no such sequence
RECURSIVE EscapeEnd(_, _)
EscapeEnd(s, j) ==
    IF j > Len(s) THEN 0
    ELSE IF s[j] \in Digits \cup {";"} THEN EscapeEnd(s, j + 1)
    ELSE IF s[j] = "m" THEN j
    ELSE 0

RECURSIVE StripFrom(_, _)
StripFrom(s, i) ==
    IF i > Len(s) THEN <<>>
    ELSE IF s[i] = "ESC" /\ i < Len(s) /\ s[i + 1] = "[" /\ EscapeEnd(s, i + 2) # 0
         THEN StripFrom(s, EscapeEnd(s, i + 2) + 1)
         ELSE <<s[i]>> \o StripFrom(s, i + 1)

strip_ansi(s) == StripFrom(s, 1)

pad_cell(s, width) ==
    LET real_len == Len(strip_ansi(s))
    IN  s \o Repeat(" ", width - real_len)

(***************************************************************************)
(* parse_segment: segment type and name from a file name.                  *)
(***************************************************************************)
parse_segment(filename) ==
    LET base == Splitext(filename)
    IN  IF StartsWith(Lower(base), PciPrefix)
        THEN [type |-> "pci", name |-> Strip(DropFirst(base, PciSkip))]
        ELSE IF StartsWith(Lower(base), NonPciPrefix)
        THEN [type |-> "non_pci", name |-> Strip(DropFirst(base, NonPciSkip))]
        ELSE [type |-> "unknown", name |-> base]

(***************************************************************************)
(* Python dicts keep insertion order; assigning to a key that is present   *)
(* keeps the key's place.  A dict is a sequence of [k, v] entries.         *)
(***************************************************************************)
DictKeys(d) == [i \in 1..Len(d) |-> d[i].k]

DictHas(d, key) == \E i \in 1..Len(d) : d[i].k = key

DictGet(d, key) == d[CHOOSE i \in 1..Len(d) : d[i].k = key].v

\* a variant of DictSet that keeps the value of a key that is present
DictSetDefault(d, key, val) ==
    IF DictHas(d, key) THEN d ELSE Append(d, [k |-> key, v |-> val])

\* d[key] = val
DictSet(d, key, val) ==
    IF DictHas(d, key)
    THEN [i \in 1..Len(d) |-> IF d[i].k = key THEN [k |-> key, v |-> val] ELSE d[i]]
    ELSE Append(d, [k |-> key, v |-> val])

InSeq(x, s) == \E i \in 1..Len(s) : s[i] = x

(***************************************************************************)
(* The working directory: the files the model draws its inputs from.       *)
(***************************************************************************)
FilePciA == <<"P", "C", "I", " ", "-", " ", "A", ".", "g", "n", "m", "a", "p">>
FileNonPciB == <<"N", "O", "N", " ", "P", "C", "I", " ", "-", " ", "B", ".", "g", "n", "m", "a", "p">>
FileNonPciA == <<"n", "o", "n", " ", "p", "c", "i", " ", "-", " ", "A", ".", "g", "n", "m", "a", "p">>
FileC == <<"C", ".", "g", "n", "m", "a", "p">>
FileNotes == <<"A", ".", "t", "x", "t">>

LineComment == <<"#", " ", "N", "m", "a", "p", "\n">>
LineStatus5 == <<"H", "o", "s", "t", ":", " ", "1", "0", ".", "0", ".", "0", ".", "5", " ", "(", "o", "p", "e", "n", ".", "l", "a", "n", ")", "\t", "S", "t", "a", "t", "u", "s", ":", " ", "U", "p", "\n">>
LineOpen5 == <<"H", "o", "s", "t", ":", " ", "1", "0", ".", "0", ".", "0", ".", "5", " ", "(", ")", "\t", "P", "o", "r", "t", "s", ":", " ", "2", "2", "/", "o", "p", "e", "n", "/", "t", "c", "p", "\n">>
LineClosed5 == <<"H", "o", "s", "t", ":", " ", "1", "0", ".", "0", ".", "0", ".", "5", " ", "(", ")", "\t", "P", "o", "r", "t", "s", ":", " ", "2", "2", "/", "c", "l", "o", "s", "e", "d", "/", "t", "c", "p", "\n">>
LineOpen9 == <<"H", "o", "s", "t", ":", " ", "1", "0", ".", "0", ".", "0", ".", "9", " ", "(", ")", "\t", "P", "o", "r", "t", "s", ":", " ", "8", "0", "/", "o", "p", "e", "n", "/", "t", "c", "p", "\n">>
LineBad == <<"H", "o", "s", "t", ":", "\n">>

GnmapNames == {FilePciA, FileNonPciB, FileNonPciA, FileC}
FileNames == GnmapNames \cup {FileNotes}

\* what a scan file may hold: host 5 open (after a status record of it);
\* host 9 open and host 5 with no open port; a record cut after "Host:";
\* or it is unreadable
FileBodies ==
    { [lines |-> <<LineComment, LineStatus5, LineOpen5>>, readable |-> TRUE],
      [lines |-> <<LineClosed5, LineOpen9>>, readable |-> TRUE],
      [lines |-> <<LineOpen5, LineBad>>, readable |-> TRUE],
      [lines |-> <<>>, readable |-> FALSE] }

\* a file that is no scan file
OtherBodies == {[lines |-> <<LineOpen5>>, readable |-> TRUE]}

BodiesOf(name) == IF name \in GnmapNames THEN FileBodies ELSE OtherBodies

Dirs ==
    UNION { { {[name |-> n, lines |-> c[n].lines, readable |-> c[n].readable] : n \in N} :
                c \in {g \in [N -> FileBodies \cup OtherBodies] : \A n \in N : g[n] \in BodiesOf(n)} } :
            N \in {M \in SUBSET FileNames : Cardinality(M) <= MaxFiles} }

NoFile == [state |-> "absent", header |-> <<>>, rows |-> <<>>, concerns |-> <<>>, placeholder |-> FALSE]
StaleFile == [state |-> "stale", header |-> <<>>, rows |-> <<>>, concerns |-> <<>>, placeholder |-> FALSE]

(***************************************************************************)
(* The state of a run.                                                     *)
(***************************************************************************)
VARIABLES
    dir,                \* the files of the working directory
    html,               \* segmentation_matrix.html
    pc,                 \* where the script is
    error,              \* the exception that ended the run, or "none"
    gnmap_files,        \* glob's list, in the order it returned the names
    idx,                \* the next file of the loading loop
    segment_hosts,      \* dict: segment name -> set of hosts
    segment_types,      \* dict: segment name -> type
    all_hosts,
    pci_segments,
    non_pci_segments,
    unknown_segments,
    ordered_segments,
    host_col_width,
    seg_col_width,
    stdout,             \* the lines printed so far
    areas_of_concern

vars == <<dir, html, pc, error, gnmap_files, idx, segment_hosts, segment_types,
          all_hosts, pci_segments, non_pci_segments, unknown_segments,
          ordered_segments, host_col_width, seg_col_width, stdout, areas_of_concern>>

loaded == <<segment_hosts, segment_types>>
aggregated == <<all_hosts, pci_segments, non_pci_segments, unknown_segments, ordered_segments>>
widths == <<host_col_width, seg_col_width>>

FileOf(name) == CHOOSE f \in dir : f.name = name

Init ==
    /\ dir \in Dirs
    /\ html \in {NoFile, StaleFile}
    /\ pc = "glob"
    /\ error = "none"
    /\ gnmap_files = <<>>
    /\ idx = 1
    /\ segment_hosts = <<>>
    /\ segment_types = <<>>
    /\ all_hosts = <<>>
    /\ pci_segments = <<>>
    /\ non_pci_segments = <<>>
    /\ unknown_segments = <<>>
    /\ ordered_segments = <<>>
    /\ host_col_width = 0
    /\ seg_col_width = 0
    /\ stdout = <<>>
    /\ areas_of_concern = <<>>

(***************************************************************************)
(* glob.glob("*.gnmap"): the names ending in .gnmap that do not start with *)
(* a dot, in whatever order the directory lists them.                      *)
(***************************************************************************)
GlobMatches(name) == EndsWith(name, GnmapSuffix) /\ name[1] # "."

Orderings(S) ==
    {p \in [1..Cardinality(S) -> S] : \A i, j \in 1..Cardinality(S) : p[i] = p[j] => i = j}

Glob ==
    /\ pc = "glob"
    /\ gnmap_files' \in Orderings({f.name : f \in {g \in dir : GlobMatches(g.name)}})
    /\ pc' = "load"
    /\ UNCHANGED <<dir, html, error, idx, loaded, aggregated, widths, stdout, areas_of_concern>>

(***************************************************************************)
(* The loading loop, one file per step.                                    *)
(***************************************************************************)
\* a variant of ScanLine that does not look for "open"
ScanLineAnyPorts(line, hosts) ==
    IF StartsWith(line, HostTag)
    THEN LET parts == Split(line)
         IN  IF Len(parts) < 2
             THEN [raised |-> TRUE, hosts |-> hosts]
             ELSE IF Contains(line, PortsTag)
                  THEN [raised |-> FALSE, hosts |-> hosts \cup {parts[2]}]
                  ELSE [raised |-> FALSE, hosts |-> hosts]
    ELSE [raised |-> FALSE, hosts |-> hosts]

\* a variant of ScanLine that skips a Host: line of fewer than two tokens
ScanLineSkipShort(line, hosts) ==
    IF StartsWith(line, HostTag) /\ Len(Split(line)) >= 2
          /\ Contains(line, PortsTag) /\ Contains(line, OpenTag)
    THEN [raised |-> FALSE, hosts |-> hosts \cup {Split(line)[2]}]
    ELSE [raised |-> FALSE, hosts |-> hosts]

\* one line of the file: the hosts after it, or the IndexError of parts[1]
ScanLine(line, hosts) ==
    IF StartsWith(line, HostTag)
    THEN LET parts == Split(line)
         IN  IF Len(parts) < 2
             THEN [raised |-> TRUE, hosts |-> hosts]
             ELSE LET ip == parts[2]
                  IN  IF Contains(line, PortsTag) /\ Contains(line, OpenTag)
                      THEN [raised |-> FALSE, hosts |-> hosts \cup {ip}]
                      ELSE [raised |-> FALSE, hosts |-> hosts]
    ELSE [raised |-> FALSE, hosts |-> hosts]

RECURSIVE ScanLines(_, _)
ScanLines(lines, hosts) ==
    IF lines = <<>> THEN [raised |-> FALSE, hosts |-> hosts]
    ELSE LET r == ScanLine(Head(lines), hosts)
         IN  IF r.raised THEN r ELSE ScanLines(Tail(lines), r.hosts)

LoadFile ==
    /\ pc = "load"
    /\ idx <= Len(gnmap_files)
    /\ LET gnmap_file == gnmap_files[idx]
           seg == parse_segment(gnmap_file)
           f == FileOf(gnmap_file)
           r == ScanLines(f.lines, {})
       IN  /\ segment_types' = DictSet(segment_types, seg.name, seg.type)
           /\ \/ /\ ~f.readable
                 /\ pc' = "aborted"
                 /\ error' = "IOError"
                 /\ UNCHANGED <<segment_hosts, idx>>
              \/ /\ f.readable
                 /\ r.raised
                 /\ pc' = "aborted"
                 /\ error' = "IndexError"
                 /\ UNCHANGED <<segment_hosts, idx>>
              \/ /\ f.readable
                 /\ ~r.raised
                 /\ segment_hosts' = DictSet(segment_hosts, seg.name, r.hosts)
                 /\ idx' = idx + 1
                 /\ UNCHANGED <<pc, error>>
    /\ UNCHANGED <<dir, html, gnmap_files, aggregated, widths, stdout, areas_of_concern>>

(***************************************************************************)
(* Aggregation: the sorted host list and the segment order.                *)
(***************************************************************************)
AllHosts(hosts_by_segment) ==
    Sorted(UNION {hosts_by_segment[i].v : i \in 1..Len(hosts_by_segment)})

\* [seg for seg, typ in types.items() if typ in T]
SegmentsTyped(types, T) == DictKeys(SelectSeq(types, LAMBDA e : e.v \in T))

PciSegments(types) == SegmentsTyped(types, {"pci"})
NonPciSegments(types) == SegmentsTyped(types, {"non_pci"})
UnknownSegments(types) == DictKeys(SelectSeq(types, LAMBDA e : e.v \notin {"pci", "non_pci"}))

\* a variant of OrderedSegments that puts the unknown segments first
OrderedSegmentsUnknownFirst(pci, non_pci, unknown) == unknown \o pci \o non_pci

OrderedSegments(pci, non_pci, unknown) == pci \o non_pci \o unknown

Aggregate ==
    /\ pc = "load"
    /\ idx > Len(gnmap_files)
    /\ all_hosts' = AllHosts(segment_hosts)
    /\ pci_segments' = PciSegments(segment_types)
    /\ non_pci_segments' = NonPciSegments(segment_types)
    /\ unknown_segments' = UnknownSegments(segment_types)
    /\ ordered_segments' = OrderedSegments(pci_segments', non_pci_segments', unknown_segments')
    /\ pc' = "widths"
    /\ UNCHANGED <<dir, html, error, gnmap_files, idx, loaded, widths, stdout, areas_of_concern>>

(***************************************************************************)
(* Column widths.  max() of an empty sequence raises ValueError.           *)
(***************************************************************************)
\* max(len(x) for x in items), for items that are not empty
MaxLen(items) ==
    CHOOSE n \in {Len(items[i]) : i \in 1..Len(items)} :
        \A i \in 1..Len(items) : Len(items[i]) <= n

ColWidth(items) == Max(MinColWidth, MaxLen(items) + ColMargin)

ComputeWidths ==
    /\ pc = "widths"
    /\ \/ /\ all_hosts = <<>>
          /\ pc' = "aborted"
          /\ error' = "ValueError"
          /\ UNCHANGED widths
       \/ /\ all_hosts # <<>>
          /\ host_col_width' = ColWidth(all_hosts)
          /\ seg_col_width' = ColWidth(DictKeys(segment_hosts))
          /\ pc' = "summary"
          /\ UNCHANGED error
    /\ UNCHANGED <<dir, html, gnmap_files, idx, loaded, aggregated, stdout, areas_of_concern>>

(***************************************************************************)
(* Classification of one host, as each of the three loops computes it.     *)
(***************************************************************************)
\* [seg for seg in segment_hosts if h in segment_hosts[seg]]
SegmentsReaching(h) ==
    SelectSeq(DictKeys(segment_hosts), LAMBDA seg : h \in DictGet(segment_hosts, seg))

\* segment_types.get(seg, "")
TypeOf(seg) == IF DictHas(segment_types, seg) THEN DictGet(segment_types, seg) ELSE ""

HasPci(h) == \E i \in 1..Len(SegmentsReaching(h)) : TypeOf(SegmentsReaching(h)[i]) = "pci"
HasNonPci(h) == \E i \in 1..Len(SegmentsReaching(h)) : TypeOf(SegmentsReaching(h)[i]) = "non_pci"

(***************************************************************************)
(* Standard output: a sequence of printed lines.  The header and the rows  *)
(* of the matrix carry their text; the fixed lines carry their kind only.  *)
(***************************************************************************)
Line(kind, colour, host, text) == [kind |-> kind, colour |-> colour, host |-> host, text |-> text]
Fixed(kind) == Line(kind, "", <<>>, <<>>)

ListOrNone(segs) == IF segs # <<>> THEN Join(<<",", " ">>, segs) ELSE <<"N", "o", "n", "e">>

Header ==
    pad_cell(HostTitle, host_col_width) \o <<" ">>
        \o Join(<<" ">>, [i \in 1..Len(ordered_segments) |-> pad_cell(ordered_segments[i], seg_col_width)])

Rule == Repeat("-", host_col_width + seg_col_width * Len(segment_hosts))

PrintSummary ==
    /\ pc = "summary"
    /\ stdout' = stdout \o
          << Fixed("classification"),
             Line("pci_segments", "green", <<>>, ListOrNone(pci_segments)),
             Line("non_pci_segments", "yellow", <<>>, ListOrNone(non_pci_segments)),
             Line("rule", "", <<>>, Rule),
             Fixed("key"), Fixed("key_green"), Fixed("key_yellow"), Fixed("key_red"),
             Line("rule", "", <<>>, Rule),
             Fixed("matrix_title"),
             Line("header", "", <<>>, Header),
             Line("rule", "", <<>>, Repeat("-", Len(Header))) >>
    /\ pc' = "matrix"
    /\ UNCHANGED <<dir, html, error, gnmap_files, idx, loaded, aggregated, widths, areas_of_concern>>

\* a variant of TextCell that turns yellow only above two segments
TextCellAboveTwo(h, segment) ==
    IF h \in DictGet(segment_hosts, segment)
    THEN IF HasPci(h) /\ HasNonPci(h) THEN RED \o <<"X">> \o RESET
         ELSE IF Len(SegmentsReaching(h)) > 2 THEN YELLOW \o <<"X">> \o RESET
         ELSE GREEN \o <<"X">> \o RESET
    ELSE <<"-">>

TextCell(h, segment) ==
    IF h \in DictGet(segment_hosts, segment)
    THEN IF HasPci(h) /\ HasNonPci(h) THEN RED \o <<"X">> \o RESET
         ELSE IF Len(SegmentsReaching(h)) > 1 THEN YELLOW \o <<"X">> \o RESET
         ELSE GREEN \o <<"X">> \o RESET
    ELSE <<"-">>

TextRow(h) ==
    pad_cell(h, host_col_width) \o <<" ">>
        \o Join(<<>>, [i \in 1..Len(ordered_segments) |->
                          pad_cell(TextCell(h, ordered_segments[i]), seg_col_width)])

PrintMatrix ==
    /\ pc = "matrix"
    /\ stdout' = stdout \o [i \in 1..Len(all_hosts) |-> Line("row", "", <<>>, TextRow(all_hosts[i]))]
    /\ pc' = "concerns"
    /\ UNCHANGED <<dir, html, error, gnmap_files, idx, loaded, aggregated, widths, areas_of_concern>>

(***************************************************************************)
(* Areas of concern.                                                       *)
(***************************************************************************)
\* a variant of ConcernsOf that reports a host once, under its worst rule
ConcernsOfWorst(h) ==
    LET segments_reaching == SegmentsReaching(h)
    IN  IF HasPci(h) /\ HasNonPci(h)
        THEN <<Line("concern_both", "red", h, Join(<<",", " ">>, segments_reaching))>>
        ELSE IF Len(segments_reaching) > 1
        THEN <<Line("concern_multi", "yellow", h, Join(<<",", " ">>, segments_reaching))>>
        ELSE <<>>

ConcernsOf(h) ==
    LET segments_reaching == SegmentsReaching(h)
        multi == Len(segments_reaching) > 1
        pci_and_nonpci == HasPci(h) /\ HasNonPci(h)
    IN  IF multi \/ pci_and_nonpci
        THEN (IF multi
              THEN <<Line("concern_multi", "yellow", h, Join(<<",", " ">>, segments_reaching))>>
              ELSE <<>>)
             \o
             (IF pci_and_nonpci
              THEN <<Line("concern_both", "red", h, Join(<<",", " ">>, segments_reaching))>>
              ELSE <<>>)
        ELSE <<>>

AreasOfConcern == Join(<<>>, [i \in 1..Len(all_hosts) |-> ConcernsOf(all_hosts[i])])

PrintConcerns ==
    /\ pc = "concerns"
    /\ areas_of_concern' = AreasOfConcern
    /\ stdout' = stdout \o <<Fixed("concerns_title")>> \o AreasOfConcern
                   \o (IF AreasOfConcern = <<>> THEN <<Fixed("no_concerns")>> ELSE <<>>)
    /\ pc' = "breakdown"
    /\ UNCHANGED <<dir, html, error, gnmap_files, idx, loaded, aggregated, widths>>

PrintBreakdown ==
    /\ pc = "breakdown"
    /\ stdout' = stdout \o << Fixed("breakdown_title"), Fixed("breakdown_matrix"),
                              Fixed("breakdown_yellow"), Fixed("breakdown_red"),
                              Fixed("breakdown_advice") >>
    /\ pc' = "html"
    /\ UNCHANGED <<dir, html, error, gnmap_files, idx, loaded, aggregated, widths, areas_of_concern>>

(***************************************************************************)
(* The HTML report: the header cells, the rows and the concerns written.   *)
(***************************************************************************)
HtmlHeaderCell(seg) ==
    IF InSeq(seg, pci_segments) THEN [style |-> HtmlPciHeader, seg |-> seg]
    ELSE IF InSeq(seg, non_pci_segments) THEN [style |-> HtmlNonPciHeader, seg |-> seg]
    ELSE [style |-> "", seg |-> seg]

\* a variant of HtmlCell that tests the type mix after the segment count
HtmlCellCountFirst(h, segment) ==
    IF h \in DictGet(segment_hosts, segment)
    THEN IF Len(SegmentsReaching(h)) > 1 THEN [colour |-> HtmlYellow, mark |-> "X"]
         ELSE IF HasPci(h) /\ HasNonPci(h) THEN [colour |-> HtmlRed, mark |-> "X"]
         ELSE [colour |-> HtmlGreen, mark |-> "X"]
    ELSE [colour |-> "", mark |-> "-"]

HtmlCell(h, segment) ==
    IF h \in DictGet(segment_hosts, segment)
    THEN IF HasPci(h) /\ HasNonPci(h) THEN [colour |-> HtmlRed, mark |-> "X"]
         ELSE IF Len(SegmentsReaching(h)) > 1 THEN [colour |-> HtmlYellow, mark |-> "X"]
         ELSE [colour |-> HtmlGreen, mark |-> "X"]
    ELSE [colour |-> "", mark |-> "-"]

HtmlRow(h) ==
    [host |-> h, cells |-> [i \in 1..Len(ordered_segments) |-> HtmlCell(h, ordered_segments[i])]]

HtmlConcern(c) ==
    IF c.colour = "red" THEN <<[style |-> "color:#b20000;font-weight:bold;", msg |-> c]>>
    ELSE IF c.colour = "yellow" THEN <<[style |-> "color:#b59b00;", msg |-> c]>>
    ELSE <<>>

HtmlDocument ==
    [state |-> "written",
     header |-> [i \in 1..Len(ordered_segments) |-> HtmlHeaderCell(ordered_segments[i])],
     rows |-> [i \in 1..Len(all_hosts) |-> HtmlRow(all_hosts[i])],
     concerns |-> Join(<<>>, [i \in 1..Len(areas_of_concern) |-> HtmlConcern(areas_of_concern[i])]),
     placeholder |-> (areas_of_concern = <<>>)]

WriteHtml ==
    /\ pc = "html"
    /\ html' = HtmlDocument
    /\ pc' = "final"
    /\ UNCHANGED <<dir, error, gnmap_files, idx, loaded, aggregated, widths, stdout, areas_of_concern>>

PrintFinal ==
    /\ pc = "final"
    /\ stdout' = Append(stdout, Fixed("html_generated"))
    /\ pc' = "done"
    /\ UNCHANGED <<dir, html, error, gnmap_files, idx, loaded, aggregated, widths, areas_of_concern>>

Next ==
    \/ Glob
    \/ LoadFile
    \/ Aggregate
    \/ ComputeWidths
    \/ PrintSummary
    \/ PrintMatrix
    \/ PrintConcerns
    \/ PrintBreakdown
    \/ WriteHtml
    \/ PrintFinal

Spec == Init /\ [][Next]_vars

(***************************************************************************)
(* Reading the inputs and the outputs back, for the properties below.      *)
(***************************************************************************)
\* a line that starts with "Host:", has a second token, and contains
\* "Ports:" and "open"
Qualifies(line) ==
    /\ StartsWith(line, HostTag)
    /\ Contains(line, PortsTag)
    /\ Contains(line, OpenTag)
    /\ Len(Split(line)) >= 2

\* the hosts a file names on Host: lines, and those it reports reachable:
\* the second tokens of its qualifying lines
NamedHosts(f) ==
    {Split(f.lines[i])[2] : i \in {j \in 1..Len(f.lines) :
        StartsWith(f.lines[j], HostTag) /\ Len(Split(f.lines[j])) >= 2}}

FileHosts(f) == {Split(f.lines[i])[2] : i \in {j \in 1..Len(f.lines) : Qualifies(f.lines[j])}}

Malformed(f) ==
    \E i \in 1..Len(f.lines) : StartsWith(f.lines[i], HostTag) /\ Len(Split(f.lines[i])) < 2

ScanFiles == {f \in dir : GlobMatches(f.name)}

\* the files the loading loop has finished, in the order it read them
Processed == [i \in 1..(idx - 1) |-> FileOf(gnmap_files[i])]

\* the last processed file of a segment name
IsLastFor(i) ==
    \A j \in (i + 1)..(idx - 1) :
        parse_segment(Processed[j].name).name # parse_segment(Processed[i].name).name

LoadDone == pc \notin {"glob", "load", "aborted"} \/ (pc = "aborted" /\ error = "ValueError")
SummaryPrinted == pc \in {"matrix", "concerns", "breakdown", "html", "final", "done"}
MatrixPrinted == pc \in {"concerns", "breakdown", "html", "final", "done"}
ConcernsPrinted == pc \in {"breakdown", "html", "final", "done"}
HtmlWritten == html.state = "written"

OfKind(kind) == SelectSeq(stdout, LAMBDA l : l.kind = kind)

\* the text matrix as it reads on the terminal: column titles, and per row
\* the host and the cells (mark and colour)
TextColumns == Tail(Split(OfKind("header")[1].text))

TextTier(cell) ==
    IF cell = RED \o <<"X">> \o RESET THEN "critical"
    ELSE IF cell = YELLOW \o <<"X">> \o RESET THEN "elevated"
    ELSE IF cell = GREEN \o <<"X">> \o RESET THEN "normal"
    ELSE "none"

TextMatrix ==
    [i \in 1..Len(OfKind("row")) |->
        LET tokens == Split(OfKind("row")[i].text)
        IN  [host |-> tokens[1],
             cells |-> [j \in 1..(Len(tokens) - 1) |->
                          [mark |-> strip_ansi(tokens[j + 1]), tier |-> TextTier(tokens[j + 1])]]]]

HtmlColumns == [i \in 1..Len(html.header) |-> html.header[i].seg]

HtmlTier(colour) ==
    IF colour = HtmlRed THEN "critical"
    ELSE IF colour = HtmlYellow THEN "elevated"
    ELSE IF colour = HtmlGreen THEN "normal"
    ELSE "none"

HtmlMatrix ==
    [i \in 1..Len(html.rows) |->
        [host |-> html.rows[i].host,
         cells |-> [j \in 1..Len(html.rows[i].cells) |->
                      [mark |-> <<html.rows[i].cells[j].mark>>,
                       tier |-> HtmlTier(html.rows[i].cells[j].colour)]]]]

\* every X cell of the rows of host h has tier t
RowTier(matrix, h, t) ==
    \A i \in 1..Len(matrix) : matrix[i].host = h =>
        \A j \in 1..Len(matrix[i].cells) :
            matrix[i].cells[j].mark = <<"X">> => matrix[i].cells[j].tier = t

HasRow(matrix, h) == \E i \in 1..Len(matrix) : matrix[i].host = h

\* the concern lines of host h on the terminal and in the report
TextConcerns(h) == SelectSeq(stdout, LAMBDA l : l.kind \in {"concern_multi", "concern_both"} /\ l.host = h)
HtmlConcerns(h) == SelectSeq(html.concerns, LAMBDA c : c.msg.host = h)

\* the segments (by name) that reach host h, and their types
Reaching(h) == {i \in 1..Len(segment_hosts) : h \in segment_hosts[i].v}
ReachingTypes(h) == {TypeOf(segment_hosts[i].k) : i \in Reaching(h)}
KnownHosts == UNION {segment_hosts[i].v : i \in 1..Len(segment_hosts)}

(***************************************************************************)
(* The properties.                                                         *)
(***************************************************************************)

\* C1: a host that has a qualifying Host: line in at least one file typed
\* pci and in at least one file typed non_pci has every reachable cell of
\* its row red, in the text matrix and in the HTML matrix.
ReachedFromType(h, t) ==
    \E i \in 1..Len(Processed) :
        parse_segment(Processed[i].name).type = t /\ h \in FileHosts(Processed[i])

C1_PciAndNonPciFileIsCritical ==
    MatrixPrinted =>
      \A h \in UNION {FileHosts(f) : f \in ScanFiles} :
        (ReachedFromType(h, "pci") /\ ReachedFromType(h, "non_pci")) =>
            /\ HasRow(TextMatrix, h) /\ RowTier(TextMatrix, h, "critical")
            /\ HtmlWritten => HasRow(HtmlMatrix, h) /\ RowTier(HtmlMatrix, h, "critical")

\* C2: with no matching scan file the run does not fail: it ends having
\* printed the header and no row, the "no concerns" placeholder, and having
\* written the HTML document with an empty table body.
C2_EmptyDirectoryRuns ==
    ScanFiles = {} =>
        /\ pc # "aborted"
        /\ pc = "done" =>
              /\ Len(OfKind("header")) = 1
              /\ OfKind("row") = <<>>
              /\ Len(OfKind("no_concerns")) = 1
              /\ HtmlWritten /\ html.rows = <<>> /\ html.placeholder

\* the input of C3: exactly two scan files, one typed pci and one typed
\* non_pci, with distinct segment names, both well formed and holding the
\* same single reachable host h
TwoZoneScenario(h) ==
    /\ Cardinality(ScanFiles) = 2
    /\ \E f, g \in ScanFiles :
          /\ parse_segment(f.name).type = "pci"
          /\ parse_segment(g.name).type = "non_pci"
          /\ parse_segment(f.name).name # parse_segment(g.name).name
          /\ f.readable /\ g.readable /\ ~Malformed(f) /\ ~Malformed(g)
          /\ FileHosts(f) = {h} /\ FileHosts(g) = {h}

OneCriticalRow(matrix, columns, h) ==
    /\ Len(matrix) = 1
    /\ matrix[1].host = h
    /\ Len(columns) = 2
    /\ Len(matrix[1].cells) = 2
    /\ \A j \in 1..2 : matrix[1].cells[j].mark = <<"X">> /\ matrix[1].cells[j].tier = "critical"

\* C3 as stated: one row, two columns, both cells reachable and critical,
\* and exactly one concern line for the host on the terminal and in the
\* report.
C3_OneConcernLine ==
    pc = "done" =>
      \A h \in UNION {FileHosts(f) : f \in ScanFiles} :
        TwoZoneScenario(h) =>
            /\ OneCriticalRow(TextMatrix, TextColumns, h)
            /\ OneCriticalRow(HtmlMatrix, HtmlColumns, h)
            /\ Len(TextConcerns(h)) = 1
            /\ Len(HtmlConcerns(h)) = 1

\* C3 amended: one row, two columns, both cells reachable and critical, and
\* two concern lines for the host, the yellow "multiple segments" line and
\* then the red "both PCI and non-PCI" line, on the terminal and in the
\* report (the red one bold).
C3_TwoConcernLines ==
    pc = "done" =>
      \A h \in UNION {FileHosts(f) : f \in ScanFiles} :
        TwoZoneScenario(h) =>
            /\ OneCriticalRow(TextMatrix, TextColumns, h)
            /\ OneCriticalRow(HtmlMatrix, HtmlColumns, h)
            /\ [i \in 1..Len(TextConcerns(h)) |-> TextConcerns(h)[i].kind]
                  = <<"concern_multi", "concern_both">>
            /\ [i \in 1..Len(TextConcerns(h)) |-> TextConcerns(h)[i].colour] = <<"yellow", "red">>
            /\ [i \in 1..Len(HtmlConcerns(h)) |-> HtmlConcerns(h)[i].msg] = TextConcerns(h)
            /\ [i \in 1..Len(HtmlConcerns(h)) |-> HtmlConcerns(h)[i].style]
                  = <<"color:#b59b00;", "color:#b20000;font-weight:bold;">>
            /\ Len(OfKind("no_concerns")) = 0 /\ ~html.placeholder

C3_Witness ==
    /\ pc = "done"
    /\ \E h \in UNION {FileHosts(f) : f \in ScanFiles} : TwoZoneScenario(h)

\* C4: a host not reached by both a pci and a non_pci segment is normal
\* (green cells, no concern line) when exactly one segment reaches it and
\* elevated (yellow cells, one yellow concern line) when two or more do.
NotBoth(h) == ~({"pci", "non_pci"} \subseteq ReachingTypes(h))

C4_NormalOrElevated ==
    \A h \in KnownHosts :
        (LoadDone /\ NotBoth(h)) =>
            LET t == IF Cardinality(Reaching(h)) = 1 THEN "normal" ELSE "elevated"
                n == IF Cardinality(Reaching(h)) = 1 THEN 0 ELSE 1
            IN  /\ MatrixPrinted => HasRow(TextMatrix, h) /\ RowTier(TextMatrix, h, t)
                /\ ConcernsPrinted =>
                      /\ Len(TextConcerns(h)) = n
                      /\ \A i \in 1..Len(TextConcerns(h)) : TextConcerns(h)[i].colour = "yellow"
                /\ HtmlWritten =>
                      /\ HasRow(HtmlMatrix, h) /\ RowTier(HtmlMatrix, h, t)
                      /\ Len(HtmlConcerns(h)) = n
                      /\ \A i \in 1..Len(HtmlConcerns(h)) : HtmlConcerns(h)[i].style = "color:#b59b00;"

C4_Witness ==
    /\ pc = "done"
    /\ \E h \in KnownHosts : NotBoth(h) /\ Cardinality(Reaching(h)) = 1
    /\ \E h \in KnownHosts :
          /\ NotBoth(h) /\ Cardinality(Reaching(h)) >= 2
          /\ Cardinality(ReachingTypes(h)) = 1

\* C5: the text matrix and the HTML matrix have the same rows in the same
\* order, the same columns in the same order, X in the same cells, and the
\* same tier colour in every X cell.
C5_TextAndHtmlAgree ==
    HtmlWritten =>
        /\ TextColumns = HtmlColumns
        /\ TextMatrix = HtmlMatrix

C5_Witness ==
    /\ HtmlWritten
    /\ Len(HtmlColumns) >= 2
    /\ Len(HtmlMatrix) >= 2
    /\ \E i \in 1..Len(TextMatrix) :
          /\ \E j \in 1..Len(TextMatrix[i].cells) : TextMatrix[i].cells[j].mark = <<"X">>
          /\ \E j \in 1..Len(TextMatrix[i].cells) : TextMatrix[i].cells[j].mark = <<"-">>
    /\ \E i \in 1..Len(TextMatrix) : \E j \in 1..Len(TextMatrix[i].cells) :
          TextMatrix[i].cells[j].tier = "elevated"

\* C6: once a file is loaded, its segment's host set holds exactly the
\* addresses named by a qualifying line of the file (a line that starts
\* with "Host:", has the address as second token and contains "Ports:" and
\* "open"); and a host is in the matrix only if a qualifying line of some
\* loaded file names it.
C6_HostSetIsQualifyingLines ==
    /\ \A i \in 1..Len(Processed) :
          IsLastFor(i) =>
              /\ DictHas(segment_hosts, parse_segment(Processed[i].name).name)
              /\ DictGet(segment_hosts, parse_segment(Processed[i].name).name)
                    = FileHosts(Processed[i])
    /\ MatrixPrinted =>
          \A r \in 1..Len(TextMatrix) :
              \E i \in 1..Len(Processed) : TextMatrix[r].host \in FileHosts(Processed[i])
    /\ HtmlWritten =>
          \A r \in 1..Len(HtmlMatrix) :
              \E i \in 1..Len(Processed) : HtmlMatrix[r].host \in FileHosts(Processed[i])

\* a loaded file names a host only on a Host: line that lacks "open", and
\* the host is in neither its segment's set nor the matrix
C6_Witness ==
    \E i \in 1..Len(Processed) :
        /\ IsLastFor(i)
        /\ NamedHosts(Processed[i]) \ FileHosts(Processed[i]) # {}
        /\ NamedHosts(Processed[i]) \cap DictGet(segment_hosts, parse_segment(Processed[i].name).name)
              = FileHosts(Processed[i])
        /\ \A h \in NamedHosts(Processed[i]) \ FileHosts(Processed[i]) : ~HasRow(TextMatrix, h)
        /\ MatrixPrinted

\* C7: the columns of the text matrix and of the HTML matrix are all the
\* segments, every pci segment before every non_pci segment before every
\* segment of another type.
Rank(type) == IF type = "pci" THEN 1 ELSE IF type = "non_pci" THEN 2 ELSE 3

Grouped(columns) ==
    /\ \A i, j \in 1..Len(columns) : i < j => Rank(TypeOf(columns[i])) <= Rank(TypeOf(columns[j]))
    /\ \A i, j \in 1..Len(columns) : columns[i] = columns[j] => i = j
    /\ {columns[i] : i \in 1..Len(columns)} = {segment_types[i].k : i \in 1..Len(segment_types)}

C7_PciThenNonPciThenUnknown ==
    /\ SummaryPrinted => Grouped(TextColumns)
    /\ HtmlWritten => Grouped(HtmlColumns)

\* three columns, one of each type, from a listing that gave the unknown
\* file first and the pci file last
C7_Witness ==
    /\ HtmlWritten
    /\ Len(TextColumns) = 3
    /\ [i \in 1..Len(HtmlColumns) |-> TypeOf(HtmlColumns[i])] = <<"pci", "non_pci", "unknown">>
    /\ parse_segment(gnmap_files[1]).type = "unknown"
    /\ parse_segment(gnmap_files[3]).type = "pci"

\* C8: nothing is printed and the report is not written before every file
\* is loaded; with an unreadable file or a "Host:" line of fewer than two
\* tokens among the scan files, the run never leaves the load phase except
\* to abort with that error, prints nothing and leaves the report as it was.
BadInput == \E f \in ScanFiles : ~f.readable \/ Malformed(f)

C8_LoadBeforeAnyOutput ==
    /\ []((stdout # <<>> \/ HtmlWritten) => (idx > Len(gnmap_files) /\ pc \notin {"glob", "load"}))
    /\ [](\/ /\ pc \in {"glob", "load", "aborted"}
              /\ pc = "aborted" => error \in {"IOError", "IndexError"}
              /\ stdout = <<>>
              /\ ~HtmlWritten
           \/ ~BadInput)
    /\ [][html' = html \/ ~BadInput]_vars

\* the run aborted on the third file, after loading two, with an old report
\* in place
C8_Witness ==
    /\ BadInput
    /\ pc = "aborted"
    /\ idx = 3
    /\ html = StaleFile
    /\ stdout = <<>>

\* C9: every column starts at the same visible offset in the header line
\* and in every row.
TokenStarts(s) == {i \in 1..Len(s) : s[i] # " " /\ (i = 1 \/ s[i - 1] = " ")}

C9_ColumnsAligned ==
    MatrixPrinted =>
        \A i \in 1..Len(OfKind("row")) :
            TokenStarts(strip_ansi(OfKind("row")[i].text))
                = TokenStarts(strip_ansi(OfKind("header")[1].text))

\* two loaded files, an earlier and a later one, with the same segment name
SameName(i, j) ==
    /\ i < j
    /\ parse_segment(Processed[i].name).name = parse_segment(Processed[j].name).name

=============================================================================
